---- MODULE Spec2Model ----
(***************************************************************************)
(* A model of perplexity-export-convert.py (class PerplexityExporter).     *)
(*                                                                         *)
(* Python strings are modelled as sequences of one-character strings, so   *)
(* that the regular-expression substitutions, strips and slices of the     *)
(* code are computed character by character.  A value that is not a string *)
(* (JSON null) is the one-element tuple None.                              *)
(***************************************************************************)
EXTENDS Integers, Sequences, FiniteSets, TLC

VARIABLES
    pc,          \* position of the run loop / of the call under study
    config,      \* self.config["filename"]: [max_length, append_date]
    call,        \* the arguments of the function call under study
    ret,         \* its return value
    nconv,       \* len(conversations)
    idx,         \* number of conversations the for-loop has consumed
    fs,          \* the output tree: set of [dir, name] files
    out,         \* per processed conversation: what was read and written
    errors,      \* self.errors
    successful,  \* process_json_export: successful
    failed,      \* process_json_export: failed
    logfile      \* content of <base_dir>/ERRORS.log written by this run

vars == <<pc, config, call, ret, nconv, idx, fs, out, errors, successful,
          failed, logfile>>

-----------------------------------------------------------------------------
(* Bounds of the model *)

MaxTitleLen == 3
MaxTokens == 4
MaxConv == 3

-----------------------------------------------------------------------------
(* Characters and character classes of the regular expressions *)

None == <<"None">>

Lower == <<"a","b","c","d","e","f","g","h","i","j","k","l","m",
           "n","o","p","q","r","s","t","u","v","w","x","y","z">>
Upper == <<"A","B","C","D","E","F","G","H","I","J","K","L","M",
           "N","O","P","Q","R","S","T","U","V","W","X","Y","Z">>

Letters ==
    {"a","b","c","d","e","f","g","h","i","j","k","l","m",
     "n","o","p","q","r","s","t","u","v","w","x","y","z",
     "A","B","C","D","E","F","G","H","I","J","K","L","M",
     "N","O","P","Q","R","S","T","U","V","W","X","Y","Z"}
Digits == {"0","1","2","3","4","5","6","7","8","9"}

\* the backtick character (it cannot be written inside a TLA+ string)
Backtick == "BACKTICK"

\* \s, and what str.strip() strips
Whitespace == {" ", "\t", "\n", "\r", "\f"}

\* the complement of the class [^a-zA-Z0-9\s.,\-_()\"@]
Punctuation == {".", ",", "-", "_", "(", ")", "\"", "@"}

KeptByFirstPass(c) ==
    c \in Letters \/ c \in Digits \/ c \in Whitespace \/ c \in Punctuation

\* the class [<>:"/\\|?*]
FsInvalid == {"<", ">", ":", "\"", "/", "\\", "|", "?", "*"}

-----------------------------------------------------------------------------
(* String primitives *)

Skip == ""

Compact(t) == SelectSeq(t, LAMBDA c : c # Skip)

\* str.replace(a, b) for one-character strings a and b
ReplaceChar(s, a, b) == [i \in 1..Len(s) |-> IF s[i] = a THEN b ELSE s[i]]

\* re.sub('[C]', '', s)
RemoveClass(s, C) == SelectSeq(s, LAMBDA c : c \notin C)

\* re.sub('[C]+', rep, s): every maximal run of C becomes one rep;
\* member[i] says whether s[i] is in the class C
CollapseClass(s, member, rep) ==
    Compact([i \in 1..Len(s) |->
        IF member[i]
        THEN IF i > 1 /\ member[i - 1] THEN Skip ELSE rep
        ELSE s[i]])

\* for each character of s, whether it is in the set C
InClass(s, C) == [i \in 1..Len(s) |-> s[i] \in C]

\* str.strip(chars): remove the characters of C at both ends
StripClass(s, C) ==
    LET RECURSIVE first(_)
        first(i) == IF i <= Len(s) /\ s[i] \in C THEN first(i + 1) ELSE i
        RECURSIVE last(_)
        last(i) == IF i >= 1 /\ s[i] \in C THEN last(i - 1) ELSE i
    IN SubSeq(s, first(1), last(Len(s)))

\* ''.join(ts)
Flatten(ts) ==
    LET RECURSIVE go(_)
        go(i) == IF i > Len(ts) THEN <<>> ELSE ts[i] \o go(i + 1)
    IN go(1)

\* s[:k], with Python's meaning of a negative k
SliceTo(s, k) ==
    IF k >= 0
    THEN SubSeq(s, 1, IF k < Len(s) THEN k ELSE Len(s))
    ELSE SubSeq(s, 1, IF Len(s) + k > 0 THEN Len(s) + k ELSE 0)

StartsWith(s, p) == Len(s) >= Len(p) /\ SubSeq(s, 1, Len(p)) = p

EndsWith(s, p) ==
    Len(s) >= Len(p) /\ SubSeq(s, Len(s) - Len(p) + 1, Len(s)) = p

-----------------------------------------------------------------------------
(* Namer *)

Untitled == <<"u","n","t","i","t","l","e","d">>
DotMd == <<".","m","d">>

strip_then_strip_underscore(s) == StripClass(StripClass(s, Whitespace), {"_"})

\* re.sub(r'[^a-zA-Z0-9\s.,\-_()\"@]+', '_', s)
replace_symbols(s) ==
    CollapseClass(s, [i \in 1..Len(s) |-> ~KeptByFirstPass(s[i])], "_")

\* re.sub(r'\s+', ' ', s)
collapse_spaces(s) == CollapseClass(s, InClass(s, Whitespace), " ")

\* re.sub(r'_+', '_', s)
collapse_underscores(s) == CollapseClass(s, InClass(s, {"_"}), "_")

\* line breaks to spaces, backticks removed
drop_breaks_and_backticks(s) ==
    RemoveClass(ReplaceChar(ReplaceChar(s, "\n", " "), "\r", " "), {Backtick})

\* lines 112-113: the cut to the available length
truncate(safe_title, available_length) ==
    IF Len(safe_title) > available_length
    THEN strip_then_strip_underscore(SliceTo(safe_title, available_length))
    ELSE safe_title

\* lines 116-117
or_untitled(safe_title) == IF safe_title = <<>> THEN Untitled ELSE safe_title

sanitize_filename(title, reserve_for_date, max_length) ==
    or_untitled(truncate(
        strip_then_strip_underscore(collapse_underscores(collapse_spaces(
            RemoveClass(replace_symbols(drop_breaks_and_backticks(title)),
                        FsInvalid)))),
        max_length - reserve_for_date))

-----------------------------------------------------------------------------
(* Timestamps: created_at as it stands in the export, e.g.                 *)
(* 2024-01-02T03:04:05Z, parsed by datetime.fromisoformat after the        *)
(* replacement of Z by +00:00 and formatted by strftime.                   *)

UtcOffset == <<"+","0","0",":","0","0">>

\* what datetime.now().strftime("%Y%m%dT%H%M%S") gives during the run
NowSuffix == <<"2","0","2","6","1","1","0","2","T","1","2","0","0","0","0">>

IsoDigitPos == {1,2,3,4,6,7,9,10,12,13,15,16,18,19}

\* datetime.fromisoformat(created_at.replace("Z", "+00:00")) does not raise
fromisoformat_ok(created_at) ==
    LET s == Flatten([i \in 1..Len(created_at) |->
                        IF created_at[i] = "Z" THEN UtcOffset
                        ELSE <<created_at[i]>>])
    IN /\ Len(s) = 25
       /\ \A i \in IsoDigitPos : s[i] \in Digits
       /\ s[5] = "-" /\ s[8] = "-" /\ s[11] = "T"
       /\ s[14] = ":" /\ s[17] = ":"
       /\ SubSeq(s, 20, 25) = UtcOffset

\* dt.strftime("%Y%m%dT%H%M%S"), the default date_format
strftime_compact(s) ==
    SubSeq(s, 1, 4) \o SubSeq(s, 6, 7) \o SubSeq(s, 9, 10) \o <<"T">> \o
    SubSeq(s, 12, 13) \o SubSeq(s, 15, 16) \o SubSeq(s, 18, 19)

\* dt.strftime("%Y-%m-%d")
strftime_date(s) == SubSeq(s, 1, 10)

-----------------------------------------------------------------------------
(* Results of calls that may raise *)

Return(v) == [exc |-> "", val |-> v]
Raise(e) == [exc |-> e, val |-> <<>>]

SafetyMargin == 15

\* the files of one directory of the output tree
Exists(tree, dir, name) == [dir |-> dir, name |-> name] \in tree

\* lines 129-133: the timestamp suffix
date_suffix_of(created_at) ==
    IF created_at # <<>> THEN strftime_compact(created_at) ELSE NowSuffix

\* f"{base_filename}-{date_suffix}.md" with the base cut to leave `reserve`
dated_name(title, date_suffix, reserve, cfg) ==
    sanitize_filename(title, reserve, cfg.max_length)
        \o <<"-">> \o date_suffix \o DotMd

\* lines 139-150: the plain name, or the dated one when the plain one exists
name_on_collision(title, filename, date_suffix, output_dir, tree, cfg) ==
    IF Exists(tree, output_dir, filename)
    THEN dated_name(title, date_suffix,
                    Len(date_suffix) + 1 + SafetyMargin, cfg)
    ELSE filename

\* lines 135-152
choose_filename(title, date_suffix, output_dir, tree, cfg) ==
    IF cfg.append_date
    THEN dated_name(title, date_suffix, Len(date_suffix) + 1, cfg)
    ELSE name_on_collision(
            title, sanitize_filename(title, 0, cfg.max_length) \o DotMd,
            date_suffix, output_dir, tree, cfg)

\* generate_unique_filename without the collision check
generate_unique_filename_unchecked(title, created_at, output_dir, tree, cfg) ==
    IF created_at # <<>> /\ ~fromisoformat_ok(created_at)
    THEN Raise("ValueError")
    ELSE IF title = None
    THEN Raise("AttributeError")
    ELSE IF cfg.append_date
    THEN Return(dated_name(title, date_suffix_of(created_at),
                           Len(date_suffix_of(created_at)) + 1, cfg))
    ELSE Return(sanitize_filename(title, 0, cfg.max_length) \o DotMd)

generate_unique_filename(title, created_at, output_dir, tree, cfg) ==
    IF created_at # <<>> /\ ~fromisoformat_ok(created_at)
    THEN Raise("ValueError")
    ELSE IF title = None
    THEN Raise("AttributeError")
    ELSE Return(choose_filename(title, date_suffix_of(created_at),
                                output_dir, tree, cfg))

-----------------------------------------------------------------------------
(* Formatter *)

\* The position after the longest match of (\[\d+\])+ that starts at i,
\* or i itself when the expression does not match there.
CitationRunEnd(s, i) ==
    LET RECURSIVE digitsEnd(_)
        digitsEnd(j) == IF j <= Len(s) /\ s[j] \in Digits
                        THEN digitsEnd(j + 1) ELSE j
        \* position after one \[\d+\] at j, or j when there is none
        tokenEnd(j) ==
            IF j <= Len(s) /\ s[j] = "["
            THEN LET k == digitsEnd(j + 1)
                 IN IF k > j + 1 /\ k <= Len(s) /\ s[k] = "]"
                    THEN k + 1 ELSE j
            ELSE j
        RECURSIVE runEnd(_)
        runEnd(j) == LET k == tokenEnd(j)
                     IN IF k = j THEN j ELSE runEnd(k)
    IN runEnd(i)

\* re.sub with count=1: only the first run of markers is deleted
remove_citation_numbers_first_only(text) ==
    LET RECURSIVE scan(_)
        scan(i) ==
            IF i > Len(text) THEN <<>>
            ELSE LET e == CitationRunEnd(text, i)
                 IN IF e > i THEN SubSeq(text, e, Len(text))
                    ELSE <<text[i]>> \o scan(i + 1)
    IN scan(1)

\* re.sub(r'(\[\d+\])+', '', text): one pass from left to right
remove_citation_numbers(text) ==
    LET RECURSIVE scan(_)
        scan(i) ==
            IF i > Len(text) THEN <<>>
            ELSE LET e == CitationRunEnd(text, i)
                 IN IF e > i THEN scan(e) ELSE <<text[i]>> \o scan(i + 1)
    IN scan(1)

\* str.split('\n')
SplitLines(s) ==
    LET RECURSIVE go(_, _)
        go(i, cur) ==
            IF i > Len(s) THEN <<cur>>
            ELSE IF s[i] = "\n" THEN <<cur>> \o go(i + 1, <<>>)
            ELSE go(i + 1, Append(cur, s[i]))
    IN go(1, <<>>)

\* '\n'.join(lines)
JoinLines(lines) ==
    LET RECURSIVE go(_)
        go(i) == IF i > Len(lines) THEN <<>>
                 ELSE IF i = 1 THEN lines[1] \o go(2)
                 ELSE <<"\n">> \o lines[i] \o go(i + 1)
    IN go(1)

\* number of leading '#' of a line
LeadingHashes(line) ==
    LET RECURSIVE go(_)
        go(i) == IF i <= Len(line) /\ line[i] = "#" THEN go(i + 1) ELSE i - 1
    IN go(1)

\* re.match(r'^(#+)\s', line)
MatchesHashesThenSpace(line) ==
    LET n == LeadingHashes(line)
    IN n >= 1 /\ n < Len(line) /\ line[n + 1] \in Whitespace

\* demote_line without the removal of the citation markers
demote_line_keeping_markers(line) ==
    IF MatchesHashesThenSpace(line) THEN <<"#">> \o line ELSE line

\* one iteration of the loop of demote_headings
demote_line(line) ==
    IF StartsWith(StripClass(line, Whitespace), <<"#">>)
    THEN IF MatchesHashesThenSpace(line)
         THEN <<"#">> \o remove_citation_numbers(line)
         ELSE line
    ELSE line

demote_headings(content) ==
    LET lines == SplitLines(content)
    IN JoinLines([i \in 1..Len(lines) |-> demote_line(lines[i])])

\* re.search(r'^\s*#\s', answer, re.MULTILINE)
contains_level1(answer) ==
    \E p \in 1..Len(answer) :
        /\ p = 1 \/ answer[p - 1] = "\n"
        /\ \E h \in p..(Len(answer) - 1) :
              /\ \A j \in p..(h - 1) : answer[j] \in Whitespace
              /\ answer[h] = "#"
              /\ answer[h + 1] \in Whitespace

\* render_answer with the markers removed from the whole text in both
\* branches
render_answer_stripping_all(answer) ==
    IF answer = None THEN Raise("TypeError")
    ELSE IF answer # <<>> /\ contains_level1(answer)
    THEN Return(remove_citation_numbers(demote_headings(answer)))
    ELSE Return(remove_citation_numbers(answer))

\* the answer of one entry as create_markdown renders it
render_answer(answer) ==
    IF answer # <<>> /\ answer # None /\ contains_level1(answer)
    THEN Return(demote_headings(answer))
    ELSE IF answer = None
    THEN Raise("TypeError")
    ELSE Return(remove_citation_numbers(answer))

ToLower(s) ==
    [i \in 1..Len(s) |->
        IF \E k \in 1..26 : Upper[k] = s[i]
        THEN Lower[CHOOSE k \in 1..26 : Upper[k] = s[i]]
        ELSE s[i]]

\* sanitize_text(text, for_metadata=True)
sanitize_text(text) ==
    strip_then_strip_underscore(collapse_underscores(collapse_spaces(
        replace_symbols(drop_breaks_and_backticks(text)))))

\* format_date: the formatted timestamp, or the string itself when it does
\* not parse
format_date(iso_datetime) ==
    IF iso_datetime = <<>> THEN <<>>
    ELSE IF fromisoformat_ok(iso_datetime) THEN strftime_compact(iso_datetime)
    ELSE iso_datetime

\* a field that the JSON object does not have
Missing == <<"Missing">>

\* self.export_date, fixed at construction
ExportDate == <<"2","0","2","6","-","1","1","-","0","2">>

Completed == <<"C","O","M","P","L","E","T","E","D">>

\* the line "# Answer (<mode>[ - <date>])[ <status>]" of one entry
answer_heading(entry, mode) ==
    LET entry_mode == IF entry.mode = Missing THEN mode ELSE entry.mode
    IN <<"#"," ","A","n","s","w","e","r"," ","(">> \o ToLower(entry_mode)
       \o (IF entry.created_at # <<>>
           THEN <<" ","-"," ">> \o format_date(entry.created_at) ELSE <<>>)
       \o (IF entry.query_status # Completed
           THEN <<")"," ">> \o entry.query_status ELSE <<")">>)

\* the four lines create_markdown appends for one entry
entry_lines(entry, mode) ==
    << <<"\n","#"," ","Q","u","e","r","y">>, entry.query,
       <<"\n">> \o answer_heading(entry, mode),
       render_answer(entry.answer).val >>

create_markdown(conversation) ==
    LET title == conversation.context_title
        created_at == conversation.created_at
        entries == conversation.entries
        RECURSIVE body(_)
        body(i) == IF i > Len(entries) THEN <<>>
                   ELSE entry_lines(entries[i], conversation.mode) \o body(i + 1)
    IN IF title = None THEN Raise("AttributeError")
       ELSE IF created_at # <<>> /\ ~fromisoformat_ok(created_at)
       THEN Raise("ValueError")
       ELSE IF \E i \in 1..Len(entries) :
                   render_answer(entries[i].answer).exc # ""
       THEN Raise("TypeError")
       ELSE Return(JoinLines(
              << <<"-","-","-">>,
                 <<"D","a","t","e",":"," ">> \o (IF created_at # <<>>
                              THEN strftime_date(created_at) ELSE <<"U","n","k","n","o","w","n">>),
                 <<"t","i","t","l","e",":"," ">> \o sanitize_text(title),
                 <<"e","x","p","o","r","t"," ","d","a","t","e",":"," ">> \o ExportDate,
                 <<"-","-","-">> >> \o body(1)))

-----------------------------------------------------------------------------
(* Collection resolver *)

Uncategorized == <<"u","n","c","a","t","e","g","o","r","i","z","e","d">>

\* config["collections"]: one mapped collection id
MappedUuid == <<"c","-","1">>
MappedName == <<"R","u","s","t">>

get_collection_name(collection_uuid) ==
    IF collection_uuid = None THEN Uncategorized
    ELSE IF collection_uuid = MappedUuid THEN MappedName
    ELSE collection_uuid

-----------------------------------------------------------------------------
(* Inputs *)

\* characters of the titles given to the Namer: a letter, a space, another
\* whitespace character, an underscore, a symbol outside the allow-set, the
\* double quote (kept by the first pass, removed by the second), a backtick,
\* a line break and an allowed punctuation mark
TitleAlphabet == {"a", " ", "\t", "_", "?", "\"", Backtick, "\n", "."}

Strings(alphabet, n) == UNION {[1..k -> alphabet] : k \in 0..n}

Titles == Strings(TitleAlphabet, MaxTitleLen)

\* filename.max_length of the configuration: the default and small values
\* around the lengths the Namer reserves
DefaultMaxLength == 128
MaxLengths == {2, 15, 17, 33, DefaultMaxLength}

Stamp1 == <<"2","0","2","4","-","0","1","-","0","2","T","0","3",":","0","4",":","0","5","Z">>
Stamp2 == <<"2","0","2","4","-","0","1","-","0","3","T","0","3",":","0","4",":","0","5","Z">>
Malformed == <<"y","e","s","t","e","r","d","a","y">>

\* reserve_for_date as generate_unique_filename passes it
Reserves == {0, Len(NowSuffix) + 1, Len(NowSuffix) + 1 + SafetyMargin}

\* answers are concatenations of these pieces
AnswerTokens ==
    { <<"#", " ">>, <<"#", "#", " ">>, <<"[", "1", "]">>, <<"[">>, <<"]">>,
      <<"2">>, <<"a">>, <<"\n">>, <<" ">>, <<"#">> }

Answers == {Flatten(ts) : ts \in Strings(AnswerTokens, MaxTokens)}

\* the record of the end-to-end scenario
RustTitle == <<"R","u","s","t","?"," ","<","v","2",">">>
RustAnswer == <<"#"," ","T","i","t","l","e","\n","B","o","d","y","[","1","]">>
WebEntry(answer) ==
    [query |-> <<"q">>, answer |-> answer, mode |-> <<"W","E","B">>,
     created_at |-> <<>>, query_status |-> Completed]

Conversation(title, created_at, uuid, answer) ==
    [context_title |-> title, created_at |-> created_at,
     collection_uuid |-> uuid, mode |-> <<"W","E","B">>,
     entries |-> <<WebEntry(answer)>>]

\* well-formed records: two titles that normalize to the same name, two
\* timestamps, two collections; and records with one malformed field
Conversations ==
    {Conversation(tc[1], tc[2], u, RustAnswer) :
        tc \in {<<RustTitle, Stamp1>>, <<RustTitle, Stamp2>>,
                <<RustTitle \o <<"?">>, Stamp1>>},
        u \in {None, MappedUuid}}
    \cup {Conversation(None, Stamp1, None, RustAnswer),
          Conversation(RustTitle, Malformed, None, RustAnswer),
          Conversation(RustTitle, Stamp1, None, None)}

\* what the file system answers to mkdir and write_text
IoOutcomes == {"ok", "mkdir fails", "write fails"}

-----------------------------------------------------------------------------
(* The run: PerplexityExporter.run -> process_json_export *)

\* create_markdown(conv) of every input record (it depends on nothing else)
RenderedMarkdown == [c \in Conversations |-> create_markdown(c)]

NoCall == [fn |-> "none"]

\* no ERRORS.log
NoLog == [written |-> FALSE, blocks |-> <<>>]

\* the error log as write_error_log writes it: the two header lines, then
\* one block of three lines and a rule per entry of self.errors
ErrorLogText(errs) ==
    [written |-> TRUE,
     blocks |-> [i \in 1..Len(errs) |->
                    [timestamp |-> errs[i].timestamp,
                     conversation |-> errs[i].title,
                     error |-> errs[i].error]]]

\* log_error that keeps only the latest error
log_error_overwriting(errs, conversation_title, error, now) ==
    <<[title |-> conversation_title, error |-> error, timestamp |-> now]>>

\* log_error
log_error(errs, conversation_title, error, now) ==
    Append(errs, [title |-> conversation_title, error |-> error,
                  timestamp |-> now])

\* write_error_log that writes the block of the last error only
write_error_log_last_only(errs, old) ==
    IF errs = <<>> THEN old ELSE ErrorLogText(<<errs[Len(errs)]>>)

\* write_error_log: the new content of ERRORS.log (NoLog: not written)
write_error_log(errs, old) ==
    IF errs = <<>> THEN old ELSE ErrorLogText(errs)

\* the try block once its three values are computed, for each answer of
\* the file system: the exception raised, or what is written where
try_outcome(collection_dir, filename, markdown_content) ==
    [io \in IoOutcomes |->
        IF io = "mkdir fails" THEN Raise("OSError")
        ELSE IF filename.exc # "" THEN Raise(filename.exc)
        ELSE IF markdown_content.exc # "" THEN Raise(markdown_content.exc)
        ELSE IF io = "write fails" THEN Raise("OSError")
        ELSE Return([dir |-> collection_dir, name |-> filename.val,
                     content |-> markdown_content.val])]

\* the body of the try block for one conversation
try_body(conv, tree, cfg) ==
    try_outcome(
        get_collection_name(conv.collection_uuid),
        generate_unique_filename(
            conv.context_title, conv.created_at,
            get_collection_name(conv.collection_uuid), tree, cfg),
        RenderedMarkdown[conv])

Init ==
    /\ pc = "loop"
    /\ config \in [max_length : {DefaultMaxLength}, append_date : BOOLEAN]
    /\ call = NoCall
    /\ ret = <<>>
    /\ nconv \in 0..MaxConv
    /\ idx = 0
    /\ fs \in {{}, {[dir |-> Uncategorized, name |-> sanitize_filename(RustTitle, 0,
                                    DefaultMaxLength) \o DotMd]}}
    /\ out = <<>>
    /\ errors = <<>>
    /\ successful = 0
    /\ failed = 0
    /\ logfile = NoLog

\* lines 361-364: the file is written
Succeed(conv, written) ==
    /\ fs' = fs \cup {[dir |-> written.dir, name |-> written.name]}
    /\ successful' = successful + 1
    /\ out' = Append(out,
          [ok |-> TRUE, exc |-> "", title |-> conv.context_title,
           created_at |-> conv.created_at, uuid |-> conv.collection_uuid,
           dir |-> written.dir, name |-> written.name,
           existed |-> Exists(fs, written.dir, written.name),
           content |-> written.content])
    /\ UNCHANGED <<errors, failed>>

\* lines 366-371: the except clause
Fail(conv, exc) ==
    /\ errors' = log_error(errors, conv.context_title, exc, idx + 1)
    /\ failed' = failed + 1
    /\ out' = Append(out,
          [ok |-> FALSE, exc |-> exc, title |-> conv.context_title,
           created_at |-> <<>>, uuid |-> None, dir |-> <<>>, name |-> <<>>,
           existed |-> FALSE, content |-> <<>>])
    /\ UNCHANGED <<fs, successful>>

Settle(conv, r) == IF r.exc = "" THEN Succeed(conv, r.val) ELSE Fail(conv, r.exc)

\* one iteration of the for-loop of process_json_export
ProcessConversation ==
    /\ pc = "loop"
    /\ idx < nconv
    /\ \E conv \in Conversations, io \in IoOutcomes :
          Settle(conv, try_body(conv, fs, config)[io])
    /\ idx' = idx + 1
    /\ UNCHANGED <<pc, config, call, ret, nconv, logfile>>

\* after the loop: the summary, and the error log if there were failures
Finish ==
    /\ pc = "loop"
    /\ idx = nconv
    /\ logfile' = IF failed > 0 THEN write_error_log(errors, logfile)
                  ELSE logfile
    /\ pc' = "done"
    /\ UNCHANGED <<config, call, ret, nconv, idx, fs, out, errors,
                   successful, failed>>

Next == ProcessConversation \/ Finish

Spec == Init /\ [][Next]_vars

-----------------------------------------------------------------------------
(* The Namer alone, on every title up to MaxTitleLen *)

InitNamer ==
    /\ pc = "call"
    /\ config \in [max_length : MaxLengths, append_date : BOOLEAN]
    /\ call \in [fn : {"none"}, title : Titles]
    /\ ret = <<>>
    /\ nconv = 0 /\ idx = 0 /\ fs = {} /\ out = <<>> /\ errors = <<>>
    /\ successful = 0 /\ failed = 0 /\ logfile = NoLog

CallSanitize ==
    /\ pc = "call"
    /\ \E r \in Reserves :
          /\ call' = [fn |-> "sanitize_filename", title |-> call.title,
                      reserve_for_date |-> r]
          /\ ret' = sanitize_filename(call.title, r, config.max_length)
    /\ pc' = "returned"
    /\ UNCHANGED <<config, nconv, idx, fs, out, errors, successful, failed,
                   logfile>>

\* generate_unique_filename in a directory that is empty or already holds
\* the file of an earlier record of the same title
CallGenerate ==
    /\ pc = "call"
    /\ \E c \in {<<>>, Stamp1}, held \in BOOLEAN :
          /\ fs' = IF held
                   THEN {[dir |-> Uncategorized,
                          name |-> sanitize_filename(call.title, 0,
                                       config.max_length) \o DotMd]}
                   ELSE {}
          /\ call' = [fn |-> "generate_unique_filename",
                      title |-> call.title, created_at |-> c]
          /\ ret' = generate_unique_filename(call.title, c, Uncategorized,
                                             fs', config).val
    /\ pc' = "returned"
    /\ UNCHANGED <<config, nconv, idx, out, errors, successful, failed,
                   logfile>>

NextNamer == CallSanitize \/ CallGenerate

SpecNamer == InitNamer /\ [][NextNamer]_vars

-----------------------------------------------------------------------------
(* The rendering of one answer, on every answer of up to MaxTokens pieces *)

InitFormatter ==
    /\ pc = "call"
    /\ config = [max_length |-> DefaultMaxLength, append_date |-> FALSE]
    /\ call \in [fn : {"none"}, answer : Answers]
    /\ ret = <<>>
    /\ nconv = 0 /\ idx = 0 /\ fs = {} /\ out = <<>> /\ errors = <<>>
    /\ successful = 0 /\ failed = 0 /\ logfile = NoLog

CallRender ==
    /\ pc = "call"
    /\ call' = [fn |-> "render_answer", answer |-> call.answer]
    /\ ret' = render_answer(call.answer).val
    /\ pc' = "returned"
    /\ UNCHANGED <<config, nconv, idx, fs, out, errors, successful, failed,
                   logfile>>

NextFormatter == CallRender

SpecFormatter == InitFormatter /\ [][NextFormatter]_vars

-----------------------------------------------------------------------------
(* Properties of the Namer (checked under SpecNamer) *)

\* the allow-set that remains after the removal of the characters a file
\* system rejects: the double quote is gone
AllowSet ==
    Letters \cup Digits \cup {" ", ".", ",", "-", "_", "(", ")", "@"}

Sanitized == pc = "returned" /\ call.fn = "sanitize_filename"
Generated == pc = "returned" /\ call.fn = "generate_unique_filename"

\* C3: the name sanitize_filename returns holds only characters of the
\* allow-set and neither starts nor ends with a space or an underscore.
C3_AllowedCharsAndTrimmedEnds ==
    Sanitized =>
        /\ \A i \in 1..Len(ret) : ret[i] \in AllowSet
        /\ ret # <<>>
        /\ ret[1] \notin {" ", "_"}
        /\ ret[Len(ret)] \notin {" ", "_"}

\* a title made only of characters that normalization deletes, replaces by
\* an underscore or trims: nothing of it can remain
NormalizesToEmpty(title) ==
    \A i \in 1..Len(title) :
        title[i] \notin Letters \cup Digits \cup {".", ",", "-", "(", ")", "@"}

\* the timestamp suffix of the call under study
SuffixOf(created_at) ==
    IF created_at = <<>> THEN NowSuffix ELSE strftime_compact(created_at)

\* C9: a title that normalizes to empty is named untitled.md, or
\* untitled-<timestamp>.md when append_date is set or untitled.md exists.
C9_EmptyTitleIsUntitled ==
    (Generated /\ NormalizesToEmpty(call.title)) =>
        ret = IF config.append_date
                 \/ Exists(fs, Uncategorized, Untitled \o DotMd)
              THEN Untitled \o <<"-">> \o SuffixOf(call.created_at) \o DotMd
              ELSE Untitled \o DotMd

\* C10: sanitize_filename returns at most max_length - reserve_for_date
\* characters, and a generated file name without its .md extension has at
\* most max_length characters.
C10_LengthWithinMaxLength ==
    /\ Sanitized => Len(ret) <= config.max_length - call.reserve_for_date
    /\ Generated => Len(ret) - Len(DotMd) <= config.max_length

-----------------------------------------------------------------------------
(* Properties of the Formatter (checked under SpecFormatter) *)

Rendered == pc = "returned" /\ call.fn = "render_answer"

\* s[i..j] is one citation marker: a bracketed integer
IsMarker(s, i, j) ==
    /\ s[i] = "[" /\ s[j] = "]" /\ j > i + 1
    /\ \A k \in (i + 1)..(j - 1) : s[k] \in Digits

HasMarker(s) == \E i \in 1..Len(s), j \in 1..Len(s) : i < j /\ IsMarker(s, i, j)

\* s without the characters of its citation markers
WithoutMarkers(s) ==
    Compact([k \in 1..Len(s) |->
        IF \E i \in 1..k, j \in k..Len(s) : IsMarker(s, i, j)
        THEN Skip ELSE s[k]])

\* a line that begins with exactly one '#' followed by whitespace
IsLevel1Line(line) ==
    Len(line) >= 2 /\ line[1] = "#" /\ line[2] \in Whitespace

\* a line that begins with one or more '#' followed by whitespace
IsHeadingLine(line) ==
    \E n \in 1..(Len(line) - 1) :
        /\ \A k \in 1..n : line[k] = "#"
        /\ line[n + 1] \in Whitespace

HasLevel1Line(answer) ==
    \E i \in 1..Len(SplitLines(answer)) : IsLevel1Line(SplitLines(answer)[i])

\* the test the code applies: a line of optional whitespace, one '#', and
\* then a whitespace character, which may be the line break that ends it
PassesLevel1Test(answer) ==
    LET lines == SplitLines(answer)
    IN \E i \in 1..Len(lines) :
          LET l == lines[i]
          IN \E h \in 1..Len(l) :
                /\ \A k \in 1..(h - 1) : l[k] \in Whitespace
                /\ l[h] = "#"
                /\ \/ h < Len(l) /\ l[h + 1] \in Whitespace
                   \/ h = Len(l) /\ i < Len(lines)

\* C6: when the answer has a level-1 heading line, every heading line gets
\* one more '#' and loses its citation markers, and every other line is
\* left as it is.
C6_HeadingsDemotedOthersKept ==
    (Rendered /\ HasLevel1Line(call.answer)) =>
        LET before == SplitLines(call.answer)
            after == SplitLines(ret)
        IN /\ Len(after) = Len(before)
           /\ \A i \in 1..Len(before) :
                 after[i] = IF IsHeadingLine(before[i])
                            THEN <<"#">> \o WithoutMarkers(before[i])
                            ELSE before[i]

C6_Witness ==
    /\ Rendered
    /\ call.answer = <<"#"," ","[","1","]","\n","[","1","]">>
    /\ ret = <<"#","#"," ","\n","[","1","]">>

-----------------------------------------------------------------------------
(* Properties of the run (checked under Spec) *)

Processed == 1..Len(out)

FileOf(i) == [dir |-> out[i].dir, name |-> out[i].name]

\* the files this run created
CreatedByRun == {FileOf(i) : i \in {k \in Processed : out[k].ok /\ ~out[k].existed}}

\* f was there when record i was processed
HeldBefore(i, f) ==
    \/ f \in fs \ CreatedByRun
    \/ \E k \in 1..(i - 1) : out[k].ok /\ FileOf(k) = f

Normalized(i) == sanitize_filename(out[i].title, 0, config.max_length)

\* C1: no successfully processed record is written over an existing file,
\* and the run writes as many files as it processes records successfully.
C1_NoRecordOverwritten ==
    /\ \A i \in Processed : out[i].ok => ~out[i].existed
    /\ Cardinality({FileOf(i) : i \in {k \in Processed : out[k].ok}})
          = successful

\* two records with the same normalized title, written to the same directory
SameNameSameDir(i, j) ==
    /\ i < j /\ out[i].ok /\ out[j].ok
    /\ out[i].dir = out[j].dir
    /\ Normalized(i) = Normalized(j)

HasSuffix(i) ==
    EndsWith(out[i].name, <<"-">> \o SuffixOf(out[i].created_at) \o DotMd)

\* C2 as stated: of two such records, with append_date off, the first is
\* named <base>.md and the second ends in -<timestamp>.md.
C2_FirstPlainSecondSuffixed ==
    ~config.append_date =>
        \A i \in Processed, j \in Processed :
            SameNameSameDir(i, j) =>
                /\ out[i].name = Normalized(i) \o DotMd
                /\ HasSuffix(j)

\* C2 as amended: the same, when <base>.md was not in the directory at the
\* time the first of the two was processed.
C2_FirstPlainWhenNameFree ==
    ~config.append_date =>
        \A i \in Processed, j \in Processed :
            (/\ SameNameSameDir(i, j)
             /\ ~HeldBefore(i, [dir |-> out[i].dir,
                                name |-> Normalized(i) \o DotMd])) =>
                /\ out[i].name = Normalized(i) \o DotMd
                /\ ~HasSuffix(i)
                /\ HasSuffix(j)
                /\ out[j].name # Normalized(j) \o DotMd

C2_Witness ==
    /\ ~config.append_date
    /\ \E i \in Processed, j \in Processed :
          /\ SameNameSameDir(i, j)
          /\ out[i].title # out[j].title
          /\ out[i].name = Normalized(i) \o DotMd
          /\ HasSuffix(j)

\* the failed records, in processing order
Failures == SelectSeq(out, LAMBDA o : ~o.ok)

AnswerSection(body) == <<"\n","#"," ","A","n","s","w","e","r"," ","(","w","e","b",")","\n">> \o body

\* a record without collection id whose one entry has the answer RustAnswer
ScenarioRecord(i) == out[i].ok /\ out[i].uuid = None

\* C5 as stated: the file goes to uncategorized/ and its answer section
\* reads "## Title", "Body" under "# Answer (web)": the marker is gone.
C5_BodyMarkerStripped ==
    \A i \in Processed :
        ScenarioRecord(i) =>
            /\ out[i].dir = Uncategorized
            /\ EndsWith(out[i].content, AnswerSection(<<"#","#"," ","T","i","t","l","e","\n","B","o","d","y">>))

\* C5 as amended: the heading is demoted and the marker of the body line,
\* which is no heading, is kept.
C5_BodyMarkerKept ==
    \A i \in Processed :
        ScenarioRecord(i) =>
            /\ out[i].dir = Uncategorized
            /\ EndsWith(out[i].content, AnswerSection(<<"#","#"," ","T","i","t","l","e","\n","B","o","d","y","[","1","]">>))

C5_Witness ==
    \E i \in Processed :
        /\ ScenarioRecord(i)
        /\ out[i].title = RustTitle
        /\ FileOf(i) \in fs

\* C8: ERRORS.log is written at the end of the run iff a record failed,
\* with one block per failed record in processing order.
C8_ErrorLogIffFailure ==
    /\ pc # "done" => ~logfile.written
    /\ pc = "done" =>
          /\ logfile.written <=> (\E i \in Processed : ~out[i].ok)
          /\ logfile.written =>
                /\ Len(logfile.blocks) = Len(Failures)
                /\ \A k \in 1..Len(Failures) :
                      /\ logfile.blocks[k].conversation = Failures[k].title
                      /\ logfile.blocks[k].error = Failures[k].exc
                      /\ logfile.blocks[k].timestamp \in 1..nconv
                /\ \A k \in 1..(Len(Failures) - 1) :
                      logfile.blocks[k].timestamp
                          < logfile.blocks[k + 1].timestamp

C8_Witness ==
    /\ pc = "done" /\ logfile.written
    /\ Len(logfile.blocks) = 2
    /\ successful = 1
    /\ logfile.blocks[1].error # logfile.blocks[2].error

====
